---- MODULE Spec2Model ----
(***************************************************************************)
(* Model of scripts/clean_wenzhou.py: the module-level cleaning pipeline   *)
(* that loads the raw per-point tables (or the legacy single table),       *)
(* filters rows, left-joins the rhyme -> slot mapping, derives the vowel   *)
(* symbol, stamps the layer constants, projects onto cols_order and        *)
(* writes wuyu_lexeme.csv.                                                 *)
(*                                                                         *)
(* Conventions.  A Python str is a sequence of Unicode code points; a      *)
(* DataFrame cell is [na, s]: na = TRUE is NaN/None, otherwise s is the    *)
(* text.  A DataFrame is [cols, rows]; a row is [id, src, v] where v is    *)
(* aligned with cols, id is the pandas index label the row got when it     *)
(* was ingested, and src = [file, line] says where it was read from (id    *)
(* and src are carried through the merge as lineage).  Column names are    *)
(* TLA+ strings; the four Chinese headers are written in pinyin:           *)
(*   "yun" = U+97F5, "shengzu" = U+58F0 U+7EC4, "hanzi" = U+6C49 U+5B57,   *)
(*   "duyin" = U+8BFB U+97F3.                                              *)
(*                                                                         *)
(* Scope.  Every field is text: read_csv's numeric inference, and with it  *)
(* merge's refusal to join keys of different dtypes, is not modelled.  The *)
(* inputs are enumerated in five families (Inputs* below): raw tables with *)
(* any subset of the known columns, mapping tables with any subset of      *)
(* theirs, any short sequence of raw lines and mapping lines, any listing  *)
(* of the points directory, and any short transcription.                   *)
(***************************************************************************)
EXTENDS Integers, Sequences, FiniteSets, TLC

VARIABLES
    dir,        \* input: data_raw/points, file name -> table on disk
    legacy,     \* input: data_raw/wuyu_raw.csv, a table on disk or Absent
    mapfile,    \* input: data_dict/rhyme_slot_mapping.csv, a table or Absent
    pc,         \* the statement the script is at
    raw_files,  \* line 14
    df,         \* the working DataFrame
    rhyme_map,  \* line 42
    df_clean,   \* line 99
    out_file,   \* data_clean/wuyu_lexeme.csv, a written table or Absent
    err,        \* the exception that ended the run, or NoErr
    ingested,   \* history: df as loaded by lines 15-25
    ran         \* history: the steps that ran to completion

vars == <<dir, legacy, mapfile, pc, raw_files, df, rhyme_map, df_clean,
          out_file, err, ingested, ran>>

-----------------------------------------------------------------------------
(* Bounds of the enumerated inputs.                                        *)

MaxRows == 2

MaxMapRows == 2

MaxLen == 3

-----------------------------------------------------------------------------
(* Cells, frames and the pandas operations the script uses.                *)

NaN == [na |-> TRUE, s |-> <<>>]

Str(t) == [na |-> FALSE, s |-> t]

Absent == [cols |-> <<"<absent>">>, data |-> <<>>]

EmptyFrame == [cols |-> <<>>, rows |-> <<>>]

NoErr == [type |-> "none", line |-> 0, cols |-> <<>>]

Range(s) == { s[i] : i \in 1..Len(s) }

\* pandas.isna / Series.notna on one cell
isna(c) == c.na

notna(c) == ~c.na

\* c in df.columns
HasCol(f, c) == c \in Range(f.cols)

\* position of the first column named c
ColIdx(f, c) == CHOOSE i \in 1..Len(f.cols) :
    f.cols[i] = c /\ \A j \in 1..(i - 1) : f.cols[j] # c

\* row[c] for a column that exists
Cell(f, r, c) == r.v[ColIdx(f, c)]

\* [c for c in wanted if c not in df.columns]
MissingCols(wanted, f) == SelectSeq(wanted, LAMBDA c : ~HasCol(f, c))

\* pandas.read_csv on one field: an empty field is NaN, anything else is a
\* str.  (The other default NA tokens of read_csv, "NA", "nan", ..., and its
\* numeric inference are not in the input alphabet used here.)
ReadCell(t) == IF t = <<>> THEN NaN ELSE Str(t)

\* pandas.read_csv: header row -> columns, RangeIndex 0..n-1
read_csv(name, file) ==
    [cols |-> file.cols,
     rows |-> [i \in 1..Len(file.data) |->
                 [id  |-> i - 1,
                  src |-> [file |-> name, line |-> i],
                  v   |-> [j \in 1..Len(file.cols) |-> ReadCell(file.data[i][j])]]]]

\* union of the columns in order of first appearance (concat, join="outer")
RECURSIVE UnionCols(_, _)
UnionCols(acc, frames) ==
    IF frames = <<>> THEN acc
    ELSE UnionCols(acc \o SelectSeq(Head(frames).cols, LAMBDA c : c \notin Range(acc)),
                   Tail(frames))

\* one frame's rows re-aligned to cols, absent columns filled with NaN
Realign(f, cols) ==
    [i \in 1..Len(f.rows) |->
        [f.rows[i] EXCEPT !.v =
            [j \in 1..Len(cols) |->
                IF HasCol(f, cols[j]) THEN Cell(f, f.rows[i], cols[j]) ELSE NaN]]]

RECURSIVE ConcatRows(_, _)
ConcatRows(frames, cols) ==
    IF frames = <<>> THEN <<>>
    ELSE Realign(Head(frames), cols) \o ConcatRows(Tail(frames), cols)

\* pd.concat(df_list, ignore_index=True)
concat(frames) ==
    LET cols == UnionCols(<<>>, frames)
        rows == ConcatRows(frames, cols)
    IN  [cols |-> cols,
         rows |-> [i \in 1..Len(rows) |-> [rows[i] EXCEPT !.id = i - 1]]]

\* df[c]: the cells of the (first) column named c, one per row
Column(f, c) == [i \in 1..Len(f.rows) |-> Cell(f, f.rows[i], c)]

\* a scalar broadcast to one cell per row
Broadcast(f, x) == [i \in 1..Len(f.rows) |-> x]

\* the positions at which mask is TRUE, ascending
RECURSIVE Selected(_, _)
Selected(mask, i) ==
    IF i > Len(mask) THEN <<>>
    ELSE (IF mask[i] THEN <<i>> ELSE <<>>) \o Selected(mask, i + 1)

\* df[mask]: the rows where the boolean mask is TRUE, in their order, index
\* labels kept
FilterFrame(f, mask) ==
    LET ps == Selected(mask, 1)
    IN  [f EXCEPT !.rows = [k \in 1..Len(ps) |-> f.rows[ps[k]]]]

-----------------------------------------------------------------------------
(* Paths: raw_dir.glob("*.csv") and sorted().                              *)

DotCsv == <<46, 99, 115, 118>>

LegacyName == <<119, 117, 121, 117, 95, 114, 97, 119>> \o DotCsv

\* fnmatch "*.csv"
MatchesCsv(name) ==
    /\ Len(name) >= Len(DotCsv)
    /\ SubSeq(name, Len(name) - Len(DotCsv) + 1, Len(name)) = DotCsv

glob(d) == { n \in DOMAIN d : MatchesCsv(n) }

\* Path.__lt__ for two files of one directory: str comparison of the names
PathLess(a, b) ==
    \E k \in 1..(Len(a) + 1) :
        /\ k <= Len(b)
        /\ \A i \in 1..(k - 1) : i <= Len(a) /\ a[i] = b[i]
        /\ (k = Len(a) + 1 \/ a[k] < b[k])

\* shorter names first, names of one length in str order
ShortLex(a, b) == Len(a) < Len(b) \/ (Len(a) = Len(b) /\ PathLess(a, b))

\* the paths ordered by length of name rather than by name
RECURSIVE sorted_ByLength(_)
sorted_ByLength(S) ==
    IF S = {} THEN <<>>
    ELSE LET m == CHOOSE x \in S : \A y \in S : y = x \/ ShortLex(x, y)
         IN  <<m>> \o sorted_ByLength(S \ {m})

\* sorted(): repeatedly take the least remaining path
RECURSIVE sorted(_)
sorted(S) ==
    IF S = {} THEN <<>>
    ELSE LET m == CHOOSE x \in S : \A y \in S : y = x \/ PathLess(x, y)
         IN  <<m>> \o sorted(S \ {m})

-----------------------------------------------------------------------------
(* Program constants.                                                      *)

Yun == "yun"

ShengZu == "shengzu"

HanZi == "hanzi"

DuYin == "duyin"

\* the literal the rhyme column is compared with at line 33 (U+97F5)
HeaderToken == <<38901>>

\* the reading column is not among the columns checked at line 29
required_base_cols_NoReading == <<Yun, ShengZu, HanZi>>

required_base_cols == <<Yun, ShengZu, HanZi, DuYin>>

\* lines 36-39 check nothing
required_point_cols_None == <<>>

required_point_cols == <<"point_id", "point_name", "subbranch", "lat", "lon">>


\* the literals of lines 77-81 as to_csv writes them
MainText == <<109, 97, 105, 110>>

OneText == <<49>>

NoneText == <<110, 111, 110, 101>>

cols_order ==
    <<"point_id", "point_name", "subbranch", "lat", "lon",
      "rhyme_modern", "chain_slot", "slot_type_initial", "is_free",
      "onset_class",
      "char", "phonetic", "vowel_symbol", "vowel_class",
      "reading_layer", "mainlayer_flag",
      "combo_validity", "zero_type",
      "feature_change">>

\* the character class of VOWEL_PATTERN, line 63:
\* a e i o u A E I O U, U+0264 U+0254 U+00F8 U+0153 U+0259 U+026F U+0250
\* U+028C, y, U+0268
VOWEL_PATTERN ==
    {97, 101, 105, 111, 117, 65, 69, 73, 79, 85,
     612, 596, 248, 339, 601, 623, 592, 652, 121, 616}

-----------------------------------------------------------------------------
(* The join, the column assignments and the projection.                    *)

\* merge's suffixes=("_x", "_y") on the names both frames have
Suffixed(cols, other, sfx) ==
    [i \in 1..Len(cols) |->
        IF cols[i] \in Range(other) THEN cols[i] \o sfx ELSE cols[i]]

\* how="left": the left rows in their order; each is followed by nothing
\* else than its own matches, taken in the right frame's order; a left row
\* without a match is kept once with NaN in every right column.  Equal keys
\* match, and pandas lets a NaN key match a NaN key.
RECURSIVE MergeRows(_, _, _, _, _)
MergeRows(lrows, left, right, left_on, right_on) ==
    IF lrows = <<>> THEN <<>>
    ELSE LET r     == Head(lrows)
             ms    == SelectSeq(right.rows,
                        LAMBDA m : Cell(right, m, right_on) = Cell(left, r, left_on))
             nulls == [j \in 1..Len(right.cols) |-> NaN]
             outr  == IF ms = <<>>
                      THEN << [r EXCEPT !.v = r.v \o nulls] >>
                      ELSE [i \in 1..Len(ms) |-> [r EXCEPT !.v = r.v \o ms[i].v]]
         IN  outr \o MergeRows(Tail(lrows), left, right, left_on, right_on)

\* how="inner" instead of how="left": unmatched left rows are dropped
merge_Inner(left, right, left_on, right_on) ==
    LET keys == { Cell(right, right.rows[i], right_on) : i \in 1..Len(right.rows) }
        kept == SelectSeq(left.rows, LAMBDA r : Cell(left, r, left_on) \in keys)
    IN  [cols |-> Suffixed(left.cols, right.cols, "_x")
                  \o Suffixed(right.cols, left.cols, "_y"),
         rows |-> MergeRows(kept, left, right, left_on, right_on)]

\* sort=True on a descending key order: the left rows come out reversed
merge_Reordered(left, right, left_on, right_on) ==
    [cols |-> Suffixed(left.cols, right.cols, "_x")
              \o Suffixed(right.cols, left.cols, "_y"),
     rows |-> MergeRows([i \in 1..Len(left.rows) |-> left.rows[Len(left.rows) + 1 - i]],
                        left, right, left_on, right_on)]

\* df.merge(right, left_on=..., right_on=..., how="left"), lines 44-49
merge(left, right, left_on, right_on) ==
    [cols |-> Suffixed(left.cols, right.cols, "_x")
              \o Suffixed(right.cols, left.cols, "_y"),
     rows |-> MergeRows(left.rows, left, right, left_on, right_on)]

\* df[c] = vals: overwrites the column named c, or appends it
SetCol(f, c, vals) ==
    IF HasCol(f, c)
    THEN [f EXCEPT !.rows =
            [i \in 1..Len(f.rows) |->
                [f.rows[i] EXCEPT !.v =
                    [j \in 1..Len(f.cols) |->
                        IF f.cols[j] = c THEN vals[i] ELSE f.rows[i].v[j]]]]]
    ELSE [cols |-> Append(f.cols, c),
          rows |-> [i \in 1..Len(f.rows) |->
                      [f.rows[i] EXCEPT !.v = Append(f.rows[i].v, vals[i])]]]

\* df.rename(columns={"hanzi": "char", "duyin": "phonetic"}), line 58: every
\* column with a listed name is renamed, names that are absent are ignored
\* and nothing prevents the new name from repeating an existing one
rename(f) ==
    [f EXCEPT !.cols =
        [j \in 1..Len(f.cols) |->
            IF f.cols[j] = HanZi THEN "char"
            ELSE IF f.cols[j] = DuYin THEN "phonetic"
            ELSE f.cols[j]]]

\* re.search: the leftmost position where the pattern matches, 0 for none
RECURSIVE search(_, _)
search(s, i) ==
    IF i > Len(s) THEN 0
    ELSE IF s[i] \in VOWEL_PATTERN THEN i
    ELSE search(s, i + 1)

\* a lazy "+?" instead of the greedy "+": the match is one symbol long
MatchEnd_Lazy(s, i) == i

\* the greedy "+": the match starting at i is extended while it can be
RECURSIVE MatchEnd(_, _)
MatchEnd(s, i) ==
    IF i < Len(s) /\ s[i + 1] \in VOWEL_PATTERN THEN MatchEnd(s, i + 1) ELSE i

\* lines 65-71
extract_vowel_symbol(ipa) ==
    IF isna(ipa) THEN NaN
    ELSE LET m == search(ipa.s, 1)
         IN  IF m # 0 THEN Str(SubSeq(ipa.s, m, MatchEnd(ipa.s, m))) ELSE NaN

\* Series.apply(extract_vowel_symbol), line 73
apply(series) == [i \in 1..Len(series) |-> extract_vowel_symbol(series[i])]

\* the positions of the columns named c, left to right
Positions(f, c) ==
    SelectSeq([i \in 1..Len(f.cols) |-> i], LAMBDA i : f.cols[i] = c)

RECURSIVE TakePos(_, _)
TakePos(f, names) ==
    IF names = <<>> THEN <<>>
    ELSE Positions(f, Head(names)) \o TakePos(f, Tail(names))

\* no projection: the whole frame is written
getitem_All(f, names) == f

\* df[names]: for each listed name, every column carrying it
getitem(f, names) ==
    LET ps == TakePos(f, names)
    IN  [cols |-> [k \in 1..Len(ps) |-> f.cols[ps[k]]],
         rows |-> [i \in 1..Len(f.rows) |->
                     [f.rows[i] EXCEPT !.v = [k \in 1..Len(ps) |-> f.rows[i].v[ps[k]]]]]]

\* to_csv(index=False): the header and one line per row, NaN/None written
\* as the empty field
to_csv(f) ==
    [cols |-> f.cols,
     rows |-> [i \in 1..Len(f.rows) |->
                 [f.rows[i] EXCEPT !.v =
                     [k \in 1..Len(f.cols) |->
                         IF f.rows[i].v[k].na THEN <<>> ELSE f.rows[i].v[k].s]]]]


-----------------------------------------------------------------------------
(* The inputs: tables on disk.  A table on disk is [cols, data], data a    *)
(* sequence of lines, a line a sequence of fields (texts).                  *)

\* a reading column under another name than DuYin; the script knows no
\* such name, to it this is one more extra column
AltDuYin == "alt_duyin"

\* "k" U+02B0 U+0264 U+02E7 U+02E5 and "m" U+0329 U+02E8 U+02E9
Ex1 == <<107, 688, 612, 743, 741>>

Ex2 == <<109, 809, 744, 745>>

RawExtras == <<AltDuYin, "chain_slot", "char">>

PointCols == <<"point_id", "point_name", "subbranch", "lat", "lon">>

BaseCols == <<"yun", "shengzu", "hanzi", "duyin">>

RawRequired == PointCols \o BaseCols

RawUniverse == RawRequired \o RawExtras

MapRequired == <<"rhyme", "rhyme_modern", "chain_slot", "slot_type_initial", "is_free">>

MapUniverse == MapRequired \o <<"yun", "shengzu", "duyin">>

\* the subsequences of u
SubSeqs(u) == { SelectSeq(u, LAMBDA c : c \in S) : S \in SUBSET Range(u) }

BoundedSeqs(S, n) == UNION { [1..k -> S] : k \in 0..n }

\* the field of one raw line under column col
RawField(col, spec) ==
    CASE col = "yun"     -> spec.yun
      [] col = "shengzu" -> spec.shengzu
      [] col = "hanzi"   -> spec.hanzi
      [] col = "duyin"   -> spec.duyin
      [] col = AltDuYin -> Ex2
      [] col \in Range(PointCols) -> spec.pt
      [] OTHER -> <<114>>

RawTable(cols, specs) ==
    [cols |-> cols,
     data |-> [i \in 1..Len(specs) |->
                 [j \in 1..Len(cols) |-> RawField(cols[j], specs[i])]]]

\* the field of the i-th mapping line, whose key is key, under column col
MapField(col, key, i) ==
    CASE col = "rhyme"             -> key
      [] col = "rhyme_modern"      -> <<77>> \o key
      [] col = "chain_slot"        -> <<115, 48 + i>>
      [] col = "slot_type_initial" -> <<116>>
      [] col = "is_free"           -> <<48>>
      [] OTHER -> <<122>>

MapTable(cols, keys) ==
    [cols |-> cols,
     data |-> [i \in 1..Len(keys) |->
                 [j \in 1..Len(cols) |-> MapField(cols[j], keys[i], i)]]]

RowSpec(y, s, h, d, p) == [yun |-> y, shengzu |-> s, hanzi |-> h, duyin |-> d, pt |-> p]

DefaultRow == RowSpec(<<97>>, <<112>>, <<104>>, Ex1, <<80>>)

DefaultMap == MapTable(MapRequired, << <<97>>, <<98>> >>)

NameA == <<97>> \o DotCsv

NameAB == <<97, 98>> \o DotCsv

NameB == <<98>> \o DotCsv

NameTxt == <<110, 46, 116, 120, 116>>

Listing == {NameA, NameAB, NameB, NameTxt}

\* what each file of the directory holds: a.csv two lines, ab.csv one line
\* and one more column, b.csv one line with the columns in another order
FileContent(n) ==
    IF n = NameA
    THEN RawTable(RawRequired,
                  << RowSpec(<<97>>, <<112>>, <<49>>, Ex1, <<65>>),
                     RowSpec(<<99>>, <<112>>, <<50>>, <<>>, <<65>>) >>)
    ELSE IF n = NameAB
    THEN RawTable(RawRequired \o <<AltDuYin>>,
                  << RowSpec(<<98>>, <<112>>, <<51>>, Ex2, <<67>>) >>)
    ELSE RawTable(BaseCols \o PointCols,
                  << RowSpec(<<97>>, <<112>>, <<52>>, Ex1, <<66>>) >>)

LegacyContent ==
    RawTable(RawRequired, << RowSpec(<<98>>, <<112>>, <<53>>, Ex1, <<76>>) >>)

OneFile(t) == [n \in {NameA} |-> t]

NoFiles == [n \in {} |-> Absent]

YunTexts == {<<>>, <<38901>>, <<97>>, <<98>>}

ShengZuTexts == {<<>>, <<112>>}

KeyTexts == {<<>>, <<97>>}

Alphabet == {97, 612, 107, 743}

\* the raw source has any columns, in one point file or in the legacy file
InputsRawSchema ==
    \E cols \in SubSeqs(RawUniverse), inLegacy \in BOOLEAN :
        /\ dir = IF inLegacy THEN NoFiles ELSE OneFile(RawTable(cols, <<DefaultRow>>))
        /\ legacy = IF inLegacy THEN RawTable(cols, <<DefaultRow>>) ELSE Absent
        /\ mapfile = DefaultMap

\* the mapping file is absent or has any columns; the raw source has the
\* required columns and any of the extra ones
InputsMapSchema ==
    \E extras \in SubSeqs(RawExtras),
       m \in {Absent} \cup { MapTable(c, << <<97>>, <<98>> >>) : c \in SubSeqs(MapUniverse) } :
        /\ dir = OneFile(RawTable(RawRequired \o extras, <<DefaultRow>>))
        /\ legacy = Absent
        /\ mapfile = m

\* any raw lines and any mapping lines under the required columns
InputsRows ==
    \E labels \in BoundedSeqs(YunTexts \X ShengZuTexts, MaxRows),
       keys \in BoundedSeqs(KeyTexts, MaxMapRows) :
        /\ dir = OneFile(RawTable(RawRequired,
                    [i \in 1..Len(labels) |->
                        RowSpec(labels[i][1], labels[i][2], <<104>>, Ex1, <<80>>)]))
        /\ legacy = Absent
        /\ mapfile = MapTable(MapRequired, keys)

\* any directory listing, with or without the legacy file
InputsFiles ==
    \E names \in SUBSET Listing, l \in {Absent, LegacyContent} :
        /\ dir = [n \in names |-> FileContent(n)]
        /\ legacy = l
        /\ mapfile = DefaultMap

\* any transcription of at most MaxLen symbols, and the two of the examples
InputsReadings ==
    \E t \in BoundedSeqs(Alphabet, MaxLen) \cup {Ex1, Ex2} :
        /\ dir = OneFile(RawTable(RawRequired,
                    << RowSpec(<<97>>, <<112>>, <<104>>, t, <<80>>) >>))
        /\ legacy = Absent
        /\ mapfile = DefaultMap

Init ==
    /\ \/ InputsRawSchema
       \/ InputsMapSchema
       \/ InputsRows
       \/ InputsFiles
       \/ InputsReadings
    /\ pc = "glob"
    /\ raw_files = <<>>
    /\ df = EmptyFrame
    /\ rhyme_map = EmptyFrame
    /\ df_clean = EmptyFrame
    /\ out_file = Absent
    /\ err = NoErr
    /\ ingested = EmptyFrame
    /\ ran = {}


-----------------------------------------------------------------------------
(* The script, statement by statement.                                     *)

Inputs == <<dir, legacy, mapfile>>

\* the statement completed: control moves on
Goto(next, step) ==
    /\ pc' = next
    /\ ran' = ran \cup {step}
    /\ err' = err

\* the statement raised: the interpreter exits, nothing else changes
Raise(type, line, cols) ==
    /\ pc' = "error"
    /\ err' = [type |-> type, line |-> line, cols |-> cols]
    /\ UNCHANGED <<raw_files, df, rhyme_map, df_clean, out_file, ingested, ran>>

\* lines 13-14: raw_files = sorted(raw_dir.glob("*.csv"))
Glob ==
    /\ pc = "glob"
    /\ raw_files' = sorted(glob(dir))
    /\ Goto("load", "glob")
    /\ UNCHANGED <<Inputs, df, rhyme_map, df_clean, out_file, ingested>>

\* lines 15-25: the per-point files, else the legacy file, else an error
Load ==
    /\ pc = "load"
    /\ UNCHANGED <<Inputs, raw_files, rhyme_map, df_clean, out_file>>
    /\ IF raw_files # <<>>
       THEN /\ df' = concat([i \in 1..Len(raw_files) |->
                                read_csv(raw_files[i], dir[raw_files[i]])])
            /\ ingested' = df'
            /\ Goto("check_base", "load")
       ELSE IF legacy = Absent
       THEN /\ Raise("FileNotFoundError", 22, <<>>)
       ELSE /\ df' = read_csv(LegacyName, legacy)
            /\ ingested' = df'
            /\ Goto("check_base", "load")

\* lines 28-31
CheckBaseCols ==
    /\ pc = "check_base"
    /\ UNCHANGED <<Inputs, raw_files, df, rhyme_map, df_clean, out_file, ingested>>
    /\ LET missing_base_cols == MissingCols(required_base_cols, df)
       IN  IF missing_base_cols # <<>>
           THEN Raise("ValueError", 31, missing_base_cols)
           ELSE Goto("filter", "check_base")

\* line 33 left out: header lines are kept
KeepNotHeader_NoGuard(f) == Broadcast(f, TRUE)

\* the mask of line 32 and the mask of line 33
KeepLabelled(f) ==
    [i \in 1..Len(f.rows) |->
        notna(Column(f, Yun)[i]) /\ notna(Column(f, ShengZu)[i])]

KeepNotHeader(f) == [i \in 1..Len(f.rows) |-> Column(f, Yun)[i] # Str(HeaderToken)]

\* lines 32-33
FilterRows ==
    /\ pc = "filter"
    /\ LET d1 == FilterFrame(df, KeepLabelled(df))
       IN  df' = FilterFrame(d1, KeepNotHeader(d1))
    /\ Goto("check_point", "filter")
    /\ UNCHANGED <<Inputs, raw_files, rhyme_map, df_clean, out_file, ingested>>

\* lines 36-39
CheckPointCols ==
    /\ pc = "check_point"
    /\ UNCHANGED <<Inputs, raw_files, df, rhyme_map, df_clean, out_file, ingested>>
    /\ LET missing_point_cols == MissingCols(required_point_cols, df)
       IN  IF missing_point_cols # <<>>
           THEN Raise("ValueError", 39, missing_point_cols)
           ELSE Goto("read_map", "check_point")

\* line 42: pd.read_csv raises when the file does not exist
ReadMap ==
    /\ pc = "read_map"
    /\ UNCHANGED <<Inputs, raw_files, df, df_clean, out_file, ingested>>
    /\ IF mapfile = Absent
       THEN Raise("FileNotFoundError", 42, <<>>)
       ELSE /\ rhyme_map' = read_csv(<<>>, mapfile)
            /\ Goto("merge", "read_map")

\* lines 44-49: merge validates its keys, then joins
Merge ==
    /\ pc = "merge"
    /\ UNCHANGED <<Inputs, raw_files, rhyme_map, df_clean, out_file, ingested>>
    /\ IF ~HasCol(rhyme_map, "rhyme")
       THEN Raise("KeyError", 44, <<"rhyme">>)
       ELSE /\ df' = merge(df, rhyme_map, Yun, "rhyme")
            /\ Goto("onset", "merge")

\* the mapped canonical label is kept instead of the raw rhyme label
RhymeModernSource_Mapped == "rhyme_modern"

\* the column copied by line 53 and the one copied by line 95
OnsetSource == ShengZu

RhymeModernSource == Yun

\* line 53: df["onset_class"] = df[ShengZu]
OnsetClass ==
    /\ pc = "onset"
    /\ UNCHANGED <<Inputs, raw_files, rhyme_map, df_clean, out_file, ingested>>
    /\ IF ~HasCol(df, OnsetSource)
       THEN Raise("KeyError", 53, <<OnsetSource>>)
       ELSE /\ df' = SetCol(df, "onset_class", Column(df, OnsetSource))
            /\ Goto("rename", "onset")

\* lines 57-60
Rename ==
    /\ pc = "rename"
    /\ UNCHANGED <<Inputs, raw_files, rhyme_map, df_clean, out_file, ingested>>
    /\ IF HasCol(df, DuYin)
       THEN /\ df' = rename(df)
            /\ Goto("vowel", "rename")
       ELSE Raise("ValueError", 60, <<DuYin>>)

\* lines 73-74; "phonetic" names one column in every frame that gets here (a
\* raw column already named "phonetic" is outside the enumerated inputs)
VowelSymbol ==
    /\ pc = "vowel"
    /\ LET d1 == SetCol(df, "vowel_symbol", apply(Column(df, "phonetic")))
       IN  df' = SetCol(d1, "vowel_class", Column(d1, "vowel_symbol"))
    /\ Goto("annotate", "vowel")
    /\ UNCHANGED <<Inputs, raw_files, rhyme_map, df_clean, out_file, ingested>>

\* lines 77-81
Annotate ==
    /\ pc = "annotate"
    /\ LET d1 == SetCol(df, "reading_layer", Broadcast(df, Str(MainText)))
           d2 == SetCol(d1, "mainlayer_flag", Broadcast(df, Str(OneText)))
           d3 == SetCol(d2, "combo_validity", Broadcast(df, Str(OneText)))
           d4 == SetCol(d3, "zero_type", Broadcast(df, Str(NoneText)))
       IN  df' = SetCol(d4, "feature_change", Broadcast(df, NaN))
    /\ Goto("rhyme_modern", "annotate")
    /\ UNCHANGED <<Inputs, raw_files, rhyme_map, df_clean, out_file, ingested>>

\* line 95: df["rhyme_modern"] = df[Yun]
RhymeModern ==
    /\ pc = "rhyme_modern"
    /\ UNCHANGED <<Inputs, raw_files, rhyme_map, df_clean, out_file, ingested>>
    /\ IF ~HasCol(df, RhymeModernSource)
       THEN Raise("KeyError", 95, <<RhymeModernSource>>)
       ELSE /\ df' = SetCol(df, "rhyme_modern", Column(df, RhymeModernSource))
            /\ Goto("project", "rhyme_modern")

\* line 98: cols_order = [c for c in cols_order if c in df.columns]
PresentCols(f) == SelectSeq(cols_order, LAMBDA c : HasCol(f, c))

\* lines 98-99
Project ==
    /\ pc = "project"
    /\ df_clean' = getitem(df, PresentCols(df))
    /\ Goto("export", "project")
    /\ UNCHANGED <<Inputs, raw_files, df, rhyme_map, out_file, ingested>>

\* lines 102-104
Export ==
    /\ pc = "export"
    /\ out_file' = to_csv(df_clean)
    /\ Goto("done", "export")
    /\ UNCHANGED <<Inputs, raw_files, df, rhyme_map, df_clean, ingested>>

Next ==
    \/ Glob
    \/ Load
    \/ CheckBaseCols
    \/ FilterRows
    \/ CheckPointCols
    \/ ReadMap
    \/ Merge
    \/ OnsetClass
    \/ Rename
    \/ VowelSymbol
    \/ Annotate
    \/ RhymeModern
    \/ Project
    \/ Export

Spec == Init /\ [][Next]_vars


-----------------------------------------------------------------------------
(* What the properties speak about.                                        *)

Terminal == pc \in {"done", "error"}

AfterFilter == {"check_point", "read_map", "merge", "onset", "rename", "vowel",
                "annotate", "rhyme_modern", "project", "export", "done"}

AfterVowel == {"annotate", "rhyme_modern", "project", "export", "done"}

JoinAndDerivation == {"merge", "onset", "rename", "vowel", "annotate",
                      "rhyme_modern", "project", "export"}

\* the table on disk a row was read from
SrcTable(src) == IF src.file = LegacyName THEN legacy ELSE dir[src.file]

\* the field of the row's line under column col; empty when the table has
\* no such column
SrcText(src, col) ==
    LET t == SrcTable(src)
    IN  IF \E j \in 1..Len(t.cols) : t.cols[j] = col
        THEN t.data[src.line][CHOOSE j \in 1..Len(t.cols) : t.cols[j] = col]
        ELSE <<>>

Ids(rows) == { rows[i].id : i \in 1..Len(rows) }

\* the raw line has a rhyme label and an onset-group label, and its rhyme
\* label is not the header token
Valid(src) ==
    /\ SrcText(src, "yun") # <<>>
    /\ SrcText(src, "shengzu") # <<>>
    /\ SrcText(src, "yun") # <<38901>>

ValidIds == { ingested.rows[i].id :
                i \in { k \in 1..Len(ingested.rows) : Valid(ingested.rows[k].src) } }

\* C1: a row of the ingested record set is in the output exactly when its
\* rhyme label and its onset-group label are present and its rhyme label is
\* not the header token; from the filter on, no stage drops or adds a row.
C1_FilterCorrect ==
    /\ pc \in AfterFilter => Ids(df.rows) = ValidIds
    /\ pc = "done" => Ids(out_file.rows) = ValidIds

C1_Witness ==
    /\ pc = "done"
    /\ \E i, j \in 1..Len(ingested.rows) :
        /\ SrcText(ingested.rows[i].src, "yun") = <<38901>>
        /\ ingested.rows[i].id \notin Ids(out_file.rows)
        /\ ingested.rows[j].id \in Ids(out_file.rows)

\* the mapping rows whose rhyme label is that of the left row r
Entries(r) ==
    { m \in 1..Len(rhyme_map.rows) :
        LET k == Cell(rhyme_map, rhyme_map.rows[m], "rhyme")
        IN  ~k.na /\ k.s = SrcText(r.src, "yun") }

\* the cells the join added to a joined row: one per mapping column
Attached(w) == SubSeq(w.v, Len(df.cols) + 1, Len(df.cols) + Len(rhyme_map.cols))

\* what the join of df (the validated rows) with rhyme_map made of df
JoinPost ==
    /\ \A i \in 1..Len(df.rows) :
        LET r      == df.rows[i]
            copies == { k \in 1..Len(df'.rows) : df'.rows[k].id = r.id }
        IN  /\ Cardinality(copies) =
                  IF Entries(r) = {} THEN 1 ELSE Cardinality(Entries(r))
            /\ \A k \in copies : SubSeq(df'.rows[k].v, 1, Len(df.cols)) = r.v
            /\ Entries(r) = {} =>
                  \A k \in copies : \A c \in Range(Attached(df'.rows[k])) : c.na
            /\ \A m \in Entries(r) :
                  \E k \in copies : Attached(df'.rows[k]) = rhyme_map.rows[m].v
            /\ \A k \in copies : Entries(r) # {} =>
                  \E m \in Entries(r) : Attached(df'.rows[k]) = rhyme_map.rows[m].v
    /\ Ids(df'.rows) = Ids(df.rows)
    /\ Len(df'.rows) >= Len(df.rows)
    /\ (\A m, n \in 1..Len(rhyme_map.rows) :
            Cell(rhyme_map, rhyme_map.rows[m], "rhyme")
              = Cell(rhyme_map, rhyme_map.rows[n], "rhyme") => m = n)
          => Len(df'.rows) = Len(df.rows)

\* C2: every validated row survives the left join: once with null mapped
\* attributes when the mapping has no entry for its rhyme label, k times
\* with the entries' attributes when it has k >= 1; so the row count does
\* not shrink, and stays the same when the mapping's rhyme labels are unique.
C2_JoinPreservesRows == [][(pc = "merge" /\ pc' = "onset") => JoinPost]_vars

C2_Witness ==
    /\ pc = "onset"
    /\ Len(df.rows) = 3
    /\ Cardinality(Ids(df.rows)) = 2
    /\ \E k \in 1..Len(df.rows) : Cell(df, df.rows[k], "chain_slot").na

\* s[i..j] is the first maximal run of inventory symbols of s
FirstMaximalRun(s, i, j) ==
    /\ 1 <= i /\ i <= j /\ j <= Len(s)
    /\ \A k \in i..j : s[k] \in VOWEL_PATTERN
    /\ \A k \in 1..(i - 1) : s[k] \notin VOWEL_PATTERN
    /\ (j = Len(s) \/ s[j + 1] \notin VOWEL_PATTERN)

\* C3: the vowel symbol of a row is the first maximal run of inventory
\* symbols of its transcription, null when the transcription is absent or
\* has no inventory symbol; "k U+02B0 U+0264 U+02E7 U+02E5" gives "U+0264"
\* and "m U+0329 U+02E8 U+02E9" gives null.
C3_VowelSymbol ==
    pc \in AfterVowel =>
        \A n \in 1..Len(df.rows) :
            LET t == SrcText(df.rows[n].src, "duyin")
                c == Cell(df, df.rows[n], "vowel_symbol")
            IN  /\ (\A k \in 1..Len(t) : t[k] \notin VOWEL_PATTERN) => c.na
                /\ \A i, j \in 1..Len(t) :
                      FirstMaximalRun(t, i, j) => c = Str(SubSeq(t, i, j))
                /\ t = <<107, 688, 612, 743, 741>> => c = Str(<<612>>)
                /\ t = <<109, 809, 744, 745>> => c.na

C3_Witness ==
    /\ pc = "done"
    /\ \E n \in 1..Len(df.rows) :
        /\ SrcText(df.rows[n].src, "duyin") = <<107, 97, 612>>
        /\ Cell(df, df.rows[n], "vowel_symbol") = Str(<<97, 612>>)

\* the 19 canonical columns in their order
Canonical ==
    <<"point_id", "point_name", "subbranch", "lat", "lon", "rhyme_modern",
      "chain_slot", "slot_type_initial", "is_free", "onset_class", "char",
      "phonetic", "vowel_symbol", "vowel_class", "reading_layer",
      "mainlayer_flag", "combo_validity", "zero_type", "feature_change">>

CanonicalPos(c) == CHOOSE i \in 1..Len(Canonical) : Canonical[i] = c

\* the columns that every frame reaching the projection has
AlwaysPresent ==
    {"rhyme_modern", "onset_class", "phonetic", "vowel_symbol", "vowel_class",
     "reading_layer", "mainlayer_flag", "combo_validity", "zero_type",
     "feature_change"}

\* C4 as stated: every successful run writes exactly the 19 canonical
\* columns in their order, whatever columns the raw sources and the mapping
\* table have.
C4_Original == pc = "done" => out_file.cols = Canonical

\* C4 as amended: every successful run writes only canonical columns, in
\* canonical order, namely those the frame has after the join and the
\* derivations (a canonical column the frame lacks is left out, a name the
\* frame carries twice is written twice); the ten derived columns are always
\* written; the output is exactly the 19 columns when the raw data and the
\* mapping table share no column name, the mapping table has chain_slot,
\* slot_type_initial and is_free, and neither has a column named "char".
C4_Amended ==
    pc = "done" =>
        /\ \A i \in 1..Len(out_file.cols) : out_file.cols[i] \in Range(Canonical)
        /\ \A i, j \in 1..Len(out_file.cols) :
              i < j => CanonicalPos(out_file.cols[i]) <= CanonicalPos(out_file.cols[j])
        /\ \A c \in Range(Canonical) :
              /\ c \in Range(out_file.cols) <=> c \in Range(df.cols)
              /\ Cardinality({ i \in 1..Len(out_file.cols) : out_file.cols[i] = c })
                   = Cardinality({ i \in 1..Len(df.cols) : df.cols[i] = c })
        /\ AlwaysPresent \subseteq Range(out_file.cols)
        /\ ( /\ Range(ingested.cols) \cap Range(rhyme_map.cols) = {}
             /\ {"chain_slot", "slot_type_initial", "is_free"} \subseteq Range(rhyme_map.cols)
             /\ "char" \notin Range(ingested.cols) \cup Range(rhyme_map.cols) )
           => out_file.cols = Canonical

C4_Witness ==
    /\ pc = "done"
    /\ "chain_slot" \notin Range(out_file.cols)
    /\ Len(out_file.cols) < Len(Canonical)
    /\ Len(out_file.rows) > 0

\* the raw data has every required column but the reading column, which it
\* has under the other name
AltOnly ==
    /\ AltDuYin \in Range(ingested.cols)
    /\ "duyin" \notin Range(ingested.cols)
    /\ \A c \in Range(PointCols) \cup {"yun", "shengzu", "hanzi"} : c \in Range(ingested.cols)

\* C5 as stated: a source with the reading column under the alternate name
\* only is processed and that column becomes "phonetic"; the error about the
\* reading column is raised only when neither name exists.
C5_Original ==
    /\ (Terminal /\ "load" \in ran /\ AltOnly /\ mapfile = DefaultMap) =>
          /\ pc = "done"
          /\ \A k \in 1..Len(out_file.rows) :
                Cell(out_file, out_file.rows[k], "phonetic")
                  = SrcText(out_file.rows[k].src, AltDuYin)
    /\ (pc = "error" /\ "duyin" \in Range(err.cols)) =>
          AltDuYin \notin Range(ingested.cols)

\* C5 as amended: the reading column is looked for under the primary name
\* only: when the raw data lacks it the run fails at line 31 with the
\* missing-base-column error naming it, whether or not a column with the
\* alternate name exists, and nothing is written; in a successful run the
\* "phonetic" field of every row is its primary-name reading, never the
\* alternate column.
C5_Amended ==
    /\ ( /\ "check_base" \in ran \/ pc = "error"
         /\ "load" \in ran
         /\ "duyin" \notin Range(ingested.cols) ) =>
          /\ pc = "error"
          /\ err.type = "ValueError" /\ err.line = 31
          /\ "duyin" \in Range(err.cols)
          /\ out_file = Absent
    /\ pc = "done" =>
          /\ "duyin" \in Range(ingested.cols)
          /\ \A k \in 1..Len(out_file.rows) :
                Cell(out_file, out_file.rows[k], "phonetic")
                  = SrcText(out_file.rows[k].src, "duyin")

C5_Witness ==
    /\ pc = "error"
    /\ AltOnly
    /\ err.cols = <<DuYin>>

\* the only source is the legacy file, which has the base columns
LegacyOnly ==
    /\ glob(dir) = {}
    /\ legacy # Absent
    /\ \A c \in Range(BaseCols) : c \in Range(legacy.cols)

MissingPoint == { c \in Range(PointCols) : c \notin Range(legacy.cols) }

\* C6 as stated: a legacy file without the point-identity columns does not
\* fail the run; the output rows carry injected point-identity values.
C6_Original ==
    (Terminal /\ LegacyOnly /\ MissingPoint = Range(PointCols) /\ mapfile = DefaultMap) =>
        /\ pc = "done"
        /\ \A c \in Range(PointCols) : c \in Range(out_file.cols)

\* C6 as amended: when the only source is a legacy file that has the base
\* columns but lacks any point-identity column, the run fails at line 39
\* with the error naming the missing point columns, before the mapping is
\* read, and nothing is written; no point identity is injected: a
\* point-identity field of an output row is the raw row's own inline value.
C6_Amended ==
    /\ (Terminal /\ LegacyOnly /\ MissingPoint # {}) =>
          /\ pc = "error"
          /\ err.type = "ValueError" /\ err.line = 39
          /\ Range(err.cols) = MissingPoint
          /\ "read_map" \notin ran
          /\ out_file = Absent
    /\ pc = "done" =>
          \A k \in 1..Len(out_file.rows) : \A c \in Range(PointCols) :
              c \in Range(out_file.cols) =>
                  /\ c \in Range(ingested.cols)
                  /\ Cell(out_file, out_file.rows[k], c)
                       = SrcText(out_file.rows[k].src, c)

C6_Witness ==
    /\ pc = "error"
    /\ LegacyOnly
    /\ MissingPoint = Range(PointCols)
    /\ err.line = 39

\* no raw data, a required column absent from the raw data, or the mapping
\* file absent or without one of its required columns
FatalInput ==
    \/ glob(dir) = {} /\ legacy = Absent
    \/ "load" \in ran /\ \E c \in Range(BaseCols) \cup Range(PointCols) :
                            c \notin Range(ingested.cols)
    \/ mapfile = Absent
    \/ mapfile # Absent /\ \E c \in Range(MapRequired) : c \notin Range(mapfile.cols)

\* C7: when the inputs violate a fatal precondition the run is aborted
\* before the join and before any derivation step, and writes nothing.
C7_EagerFatal ==
    FatalInput =>
        /\ ran \cap JoinAndDerivation = {}
        /\ out_file = Absent
        /\ pc # "done"

\* a before b in lexicographic order of the names
RECURSIVE LexBefore(_, _)
LexBefore(a, b) ==
    IF a = <<>> THEN b # <<>>
    ELSE IF b = <<>> THEN FALSE
    ELSE IF Head(a) = Head(b) THEN LexBefore(Tail(a), Tail(b))
    ELSE Head(a) < Head(b)

PointFiles == { n \in DOMAIN dir : Len(n) >= 4 /\ SubSeq(n, Len(n) - 3, Len(n)) = <<46, 99, 115, 118>> }

\* the cells of an ingested row are the fields of the line it was read from
CellsFromSource(r) ==
    \A j \in 1..Len(ingested.cols) :
        LET t == SrcText(r.src, ingested.cols[j])
        IN  r.v[j] = IF t = <<>> THEN NaN ELSE Str(t)

\* C8: with at least one point file the raw record set is the point files'
\* lines, file after file in lexicographic order of file name, and holds no
\* line of the legacy file; with none and a legacy file it is exactly the
\* legacy file's lines; with neither the run ends with the missing-input
\* error before any validation, join or output step.
C8_SourceSelection ==
    /\ ("load" \in ran /\ PointFiles # {}) =>
          /\ \A f \in PointFiles : \A l \in 1..Len(dir[f].data) :
                Cardinality({ i \in 1..Len(ingested.rows) :
                    ingested.rows[i].src = [file |-> f, line |-> l] }) = 1
          /\ \A i \in 1..Len(ingested.rows) :
                /\ ingested.rows[i].src.file \in PointFiles
                /\ ingested.rows[i].id = i - 1
                /\ CellsFromSource(ingested.rows[i])
          /\ \A i, j \in 1..Len(ingested.rows) :
                i < j =>
                    LET a == ingested.rows[i].src
                        b == ingested.rows[j].src
                    IN  \/ LexBefore(a.file, b.file)
                        \/ a.file = b.file /\ a.line < b.line
          /\ Range(ingested.cols) = UNION { Range(dir[f].cols) : f \in PointFiles }
    /\ ("load" \in ran /\ PointFiles = {}) =>
          /\ legacy # Absent
          /\ ingested.cols = legacy.cols
          /\ Len(ingested.rows) = Len(legacy.data)
          /\ \A i \in 1..Len(ingested.rows) :
                /\ ingested.rows[i].src = [file |-> LegacyName, line |-> i]
                /\ CellsFromSource(ingested.rows[i])
    /\ (PointFiles = {} /\ legacy = Absent /\ pc \notin {"glob", "load"}) =>
          /\ pc = "error"
          /\ err.type = "FileNotFoundError" /\ err.line = 22
          /\ ran = {"glob"}
          /\ out_file = Absent

C8_Witness ==
    /\ "load" \in ran
    /\ Cardinality(PointFiles) = 3
    /\ DOMAIN dir # PointFiles
    /\ legacy # Absent
    /\ Len(ingested.rows) = 4

\* C9: in every output row rhyme_modern is the raw rhyme label of the row
\* it comes from, not the mapping table's canonical label, and onset_class
\* is its raw onset-group label.
C9_CopyInvariants ==
    pc = "done" =>
        \A k \in 1..Len(out_file.rows) :
            LET w == out_file.rows[k]
            IN  /\ Cell(out_file, w, "rhyme_modern") = SrcText(w.src, "yun")
                /\ Cell(out_file, w, "onset_class") = SrcText(w.src, "shengzu")

C9_Witness ==
    /\ pc = "done"
    /\ "rhyme_modern" \in Range(rhyme_map.cols)
    /\ \E k \in 1..Len(out_file.rows) :
        /\ "chain_slot" \in Range(out_file.cols)
        /\ Cell(out_file, out_file.rows[k], "chain_slot") # <<>>
        /\ Cell(out_file, out_file.rows[k], "rhyme_modern") = <<97>>

\* the rows are in the order of the ingested record set
InIngestedOrder(rows) ==
    \A i, j \in 1..Len(rows) : i < j => rows[i].id <= rows[j].id

\* C10: the output rows derived from an earlier surviving raw row all
\* precede those derived from a later one: filtering, the join with its
\* fan-out and the projection keep the order of the ingested record set.
C10_StableOrder ==
    /\ \A i \in 1..Len(ingested.rows) : ingested.rows[i].id = i - 1
    /\ pc \in AfterFilter => InIngestedOrder(df.rows)
    /\ pc \in {"export", "done"} => InIngestedOrder(df_clean.rows)
    /\ pc = "done" => InIngestedOrder(out_file.rows)

C10_Witness ==
    /\ pc = "done"
    /\ Len(out_file.rows) = 4
    /\ Cardinality(Ids(out_file.rows)) = 2

====
